---- MODULE Spec2Model ----
(***************************************************************************)
(* State-machine model of the ProChat screen (src/unnamed/part_001): the   *)
(* React state of the component, its event handlers, and the asynchronous  *)
(* continuations of streamChat.  A text is a sequence of character tokens; *)
(* a JavaScript object is a record whose optional keys may be missing.     *)
(***************************************************************************)
EXTENDS Integers, Sequences, FiniteSets, TLC

\* ------------------------------------------------------------------ bounds
MaxOps == 2      \* user operations in one behaviour, plain typing and Stop aside
MaxReq == 2      \* generation requests issued in one behaviour
MaxNet == 3      \* network events delivered in one behaviour, aborts aside

\* ------------------------------------------------------- program constants
TitleLen == 42
PreviewLen == 4000

\* -------------------------------------------------------------------- text
IsSpace(ch) == ch \in {" ", "\n"}

RECURSIVE TrimStart(_)
TrimStart(s) ==
  IF s # <<>> /\ IsSpace(Head(s)) THEN TrimStart(Tail(s)) ELSE s

RECURSIVE TrimEnd(_)
TrimEnd(s) ==
  IF s # <<>> /\ IsSpace(s[Len(s)]) THEN TrimEnd(SubSeq(s, 1, Len(s) - 1)) ELSE s

\* String.prototype.trim
Trim(s) == TrimEnd(TrimStart(s))

\* String.prototype.slice(0, n) / Array.prototype.slice(0, n)
SliceTo(s, n) == SubSeq(s, 1, IF n < Len(s) THEN n ELSE Len(s))

StartsWithSlash(s) == s # <<>> /\ Head(s) = "/"

\* ----------------------------------------------------------- configuration
STYLE_PROMPTS ==
  [ Default |-> <<"You are a concise, helpful assistant.">>,
    Claude  |-> <<"Adopt Anthropic Claude's tone: warm, thoughtful, and structured.">>,
    ChatGPT |-> <<"Adopt ChatGPT's tone: friendly, practical, and well-organized.">>,
    Qwen    |-> <<"Adopt Qwen's tone: crisp, technical, and example-driven.">> ]

DefaultConfig ==
  [ apiKey |-> "", selectedModel |-> "openai/gpt-4o-mini",
    baseUrl |-> "https://openrouter.ai/api/v1", temperature |-> 6, maxTokens |-> 1024 ]

ApiKeys == {"", "sk-or-v1"}

\* ------------------------------------------------------------------- state
VARIABLES
  chats,              \* useState: list of [id, title, messages]
  activeChatId,       \* useState
  assistantStyle,     \* useState
  customSystemPrompt, \* useState
  modelConfig,        \* useState
  isStreaming,        \* useState
  abortRef,           \* useRef: 0 (null) or the request whose controller it holds
  inputMessage,       \* useState: composer text
  attachments,        \* useState: composer attachments
  reqs,               \* the streamChat invocations, with what their closures captured
  nextId,             \* source of uuid()
  clock,              \* Date.now()
  ops,                \* user operations performed so far, plain typing and Stop aside
  net,                \* network events delivered so far, aborts aside
  alertMsg,           \* text of the alert() the last handler showed, "none" if none
  download,           \* the file last produced by exportChat
  localStorage,       \* per key, the value whose JSON.stringify is stored there
  screen,             \* the route that is mounted: "pro" or "simple"
  hf                  \* state of HuggingFaceChatApp, the simple screen

vars == << chats, activeChatId, assistantStyle, customSystemPrompt, modelConfig,
           isStreaming, abortRef, inputMessage, attachments, reqs, nextId, clock,
           ops, net, alertMsg, download, localStorage, screen, hf >>

\* the state of ProChat
pro == << chats, activeChatId, assistantStyle, customSystemPrompt, modelConfig,
          isStreaming, abortRef, inputMessage, attachments, reqs, nextId, clock,
          alertMsg, download, localStorage >>

settings == << assistantStyle, customSystemPrompt, modelConfig >>
composer == << inputMessage, attachments >>

NoFile == [name |-> <<>>, text |-> [t |-> "none"]]

\* ----------------------------------------------------------------- helpers
Has(obj, key) == key \in DOMAIN obj

\* m.attachments || []
AttachmentsOf(m) == IF Has(m, "attachments") THEN m.attachments ELSE <<>>

ChatIds == {chats[i].id : i \in DOMAIN chats}

\* chats.find(c => c.id === id): index of the first match, 0 when there is none
FindChat(cs, id) ==
  IF \E i \in DOMAIN cs : cs[i].id = id
  THEN CHOOSE i \in DOMAIN cs : cs[i].id = id /\ \A j \in 1..(i - 1) : cs[j].id # id
  ELSE 0

\* useMemo activeChat; the component cannot render when it is undefined
Mounted == FindChat(chats, activeChatId) # 0
activeChat == chats[FindChat(chats, activeChatId)]

\* number of messages rendered: none once the component has failed to render
MsgCount == IF Mounted THEN Len(activeChat.messages) ELSE 0

\* messages.findIndex(x => x.id === mid): first match, 0 when there is none
FindIndex(msgs, mid) ==
  IF \E i \in DOMAIN msgs : msgs[i].id = mid
  THEN CHOOSE i \in DOMAIN msgs : msgs[i].id = mid /\ \A j \in 1..(i - 1) : msgs[j].id # mid
  ELSE 0

\* index of the last message with the given role, 0 when there is none
LastWithRole(msgs, role) ==
  IF \E i \in DOMAIN msgs : msgs[i].role = role
  THEN CHOOSE i \in DOMAIN msgs :
         msgs[i].role = role /\ \A j \in (i + 1)..Len(msgs) : msgs[j].role # role
  ELSE 0

\* setChats(prev => prev.map(c => c.id === id ? {...c, messages: F(c.messages)} : c))
MapMessages(cs, id, F(_)) ==
  [i \in DOMAIN cs |-> IF cs[i].id = id THEN [cs[i] EXCEPT !.messages = F(@)] ELSE cs[i]]

AppendTo(cs, id, msg) ==
  LET F(ms) == Append(ms, msg) IN MapMessages(cs, id, F)

\* lines 245-247 with the conversation looked up when the message arrives
addMessageToActive(cs, id, msg) == AppendTo(cs, activeChatId, msg)

addMessage(cs, id, msg) == AppendTo(cs, id, msg)

updateLastAssistant(cs, id, delta) ==
  LET F(ms) ==
        LET i == LastWithRole(ms, "assistant") IN
        IF i = 0 THEN ms ELSE [ms EXCEPT ![i].content = @ \o delta]
  IN MapMessages(cs, id, F)

\* lines 220-224 with the addendum appended as typed
systemPromptAsTyped ==
  LET base == STYLE_PROMPTS[assistantStyle] IN
  IF Trim(customSystemPrompt) # <<>>
  THEN base \o <<"\n\n">> \o customSystemPrompt
  ELSE base

systemPrompt ==
  LET base == STYLE_PROMPTS[assistantStyle] IN
  IF Trim(customSystemPrompt) # <<>>
  THEN base \o <<"\n\n">> \o Trim(customSystemPrompt)
  ELSE base

\* ------------------------------------------------------------ request body
IsImagePart(a) == a.type = "image" /\ Has(a, "dataUrl") /\ a.dataUrl # ""

RECURSIVE ImageParts(_)
\* atts.filter(a => a.type === "image" && a.dataUrl).map(a => ({type: "image_url", ...}))
ImageParts(atts) ==
  IF atts = <<>> THEN <<>>
  ELSE (IF IsImagePart(Head(atts))
        THEN << [type |-> "image_url", image_url |-> Head(atts).dataUrl] >>
        ELSE <<>>) \o ImageParts(Tail(atts))

PlainContent(text) == [kind |-> "string", text |-> text]
PartsContent(text, atts) ==
  [kind |-> "array", parts |-> << [type |-> "text", text |-> text] >> \o ImageParts(atts)]

\* lines 263-270 with the images forgotten
UserContentPlain(userMsg) == PlainContent(userMsg.content)

\* content of the new user message (lines 263-270)
UserContent(userMsg) ==
  LET atts == AttachmentsOf(userMsg)
      userHasImages == \E i \in DOMAIN atts : IsImagePart(atts[i])
  IN IF userHasImages THEN PartsContent(userMsg.content, atts)
     ELSE PlainContent(userMsg.content)

\* content of a history message (lines 274-283)
HistoryContent(m) ==
  IF Has(m, "attachments") /\ Len(m.attachments) > 0
  THEN PartsContent(m.content, m.attachments)
  ELSE PlainContent(m.content)

buildPayload(userMsg, history) ==
  [ model       |-> modelConfig.selectedModel,
    messages    |-> << [role |-> "system", content |-> PlainContent(systemPrompt)] >>
                    \o [i \in DOMAIN history |->
                          [role |-> history[i].role, content |-> HistoryContent(history[i])]]
                    \o << [role |-> "user", content |-> UserContent(userMsg)] >>,
    temperature |-> modelConfig.temperature,
    max_tokens  |-> modelConfig.maxTokens,
    stream      |-> TRUE ]

\* ---------------------------------------------------------- response body
\* One line of a decoded chunk: whether it matches /^data:\s*(.*)$/ and, if so,
\* what JSON.parse makes of the captured payload.
Frame(delta) == [data |-> TRUE, payload |-> "json", delta |-> delta]
DoneLine     == [data |-> TRUE, payload |-> "[DONE]", delta |-> <<>>]
BadJsonLine  == [data |-> TRUE, payload |-> "garbage", delta |-> <<>>]
BlankLine    == [data |-> FALSE, payload |-> "", delta |-> <<>>]

ChunkOk == << BadJsonLine, Frame(<<>>), Frame(<<"o", "k">>), DoneLine >>
ChunkBlank == << Frame(<<" ">>), BlankLine >>

\* the response bodies a server may send, each as the chunks reader.read() yields
\* a frame cut by the network between two reads: the first read ends with the
\* beginning of the line, a data: prefix and JSON text that stops short; the
\* next read begins with the rest of the line, which has no data: prefix
CutHead(frame) == [data |-> TRUE, payload |-> "cut", delta |-> <<>>, whole |-> frame]
CutTail(frame) == [data |-> FALSE, payload |-> "", delta |-> <<>>, whole |-> frame]
ChunkHead == << Frame(<<"o">>), CutHead(Frame(<<"k">>)) >>
ChunkTail == << CutTail(Frame(<<"k">>)), DoneLine >>

Bodies == { <<>>, << ChunkOk >>, << ChunkBlank >>, << ChunkHead, ChunkTail >> }

IsPrefix(s, t) == Len(s) <= Len(t) /\ SubSeq(t, 1, Len(s)) = s

\* text appended by one line of the loop body (lines 336-349)
LineDelta(line) ==
  IF ~line.data THEN <<>>
  ELSE IF line.payload = "[DONE]" THEN <<>>
  ELSE IF line.payload = "json" THEN line.delta
  ELSE <<>>

RECURSIVE ChunkDeltasUntilBad(_)
\* lines 335-350 with the loop left at the first payload that does not parse
ChunkDeltasUntilBad(chunk) ==
  IF chunk = <<>> THEN <<>>
  ELSE IF Head(chunk).data /\ Head(chunk).payload \notin {"[DONE]", "json"} THEN <<>>
  ELSE (IF LineDelta(Head(chunk)) # <<>> THEN << LineDelta(Head(chunk)) >> ELSE <<>>)
       \o ChunkDeltasUntilBad(Tail(chunk))

RECURSIVE ChunkDeltas(_)
\* the non-empty deltas of a chunk, in line order
ChunkDeltas(chunk) ==
  IF chunk = <<>> THEN <<>>
  ELSE (IF LineDelta(Head(chunk)) # <<>> THEN << LineDelta(Head(chunk)) >> ELSE <<>>)
       \o ChunkDeltas(Tail(chunk))

RECURSIVE Concat(_)
Concat(ds) == IF ds = <<>> THEN <<>> ELSE Head(ds) \o Concat(Tail(ds))

RECURSIVE ApplyDeltas(_, _, _)
\* updateLastAssistant once per non-empty delta
ApplyDeltas(cs, id, ds) ==
  IF ds = <<>> THEN cs
  ELSE ApplyDeltas(updateLastAssistant(cs, id, Head(ds)), id, Tail(ds))

\* ------------------------------------------------------------ error texts
SendErrorText(msg) ==
  << "## Error\n\n", msg, "\n\n**Tips**\n- Check API key / model\n- Verify base URL" >>
RegenErrorText(msg) == << "## Error\n\n", msg >>

EmptyResponse == "Empty response from model"
AbortError == "The user aborted a request."
NetworkError == "Failed to fetch"
HttpError == "HTTP 401: Unauthorized"

ErrorMessage(r, msg) ==
  [ id |-> nextId, role |-> "assistant",
    content |-> IF r.kind = "send" THEN SendErrorText(msg) ELSE RegenErrorText(msg),
    timestamp |-> clock ]

\* -------------------------------------------------------- JSON documents
JNull == [t |-> "null"]
JStr(v) == [t |-> "str", v |-> v]
JNum(v) == [t |-> "num", v |-> v]
JArr(items) == [t |-> "arr", v |-> items]
JObj(fields) == [t |-> "obj", v |-> fields]

\* JavaScript truthiness of a parsed JSON value
\* truthiness where an empty array counts as false
TruthyNonEmpty(j) ==
  CASE j.t = "null" -> FALSE
    [] j.t = "str" -> j.v # <<>>
    [] j.t = "num" -> j.v # 0
    [] j.t = "arr" -> j.v # <<>>
    [] OTHER -> TRUE

Truthy(j) ==
  CASE j.t = "null" -> FALSE
    [] j.t = "str" -> j.v # <<>>
    [] j.t = "num" -> j.v # 0
    [] OTHER -> TRUE

\* a serialisation of a message that leaves its attachments out
MessageToJsonNoAttachments(m) ==
  JObj([k \in DOMAIN m \ {"attachments"} |->
          CASE k = "timestamp" -> JNum(m[k])
            [] OTHER -> JStr(m[k])])

\* JSON.stringify of a message: one member per own key
MessageToJson(m) ==
  JObj([k \in DOMAIN m |->
          CASE k = "timestamp" -> JNum(m[k])
            [] k = "attachments" -> JArr([i \in DOMAIN m[k] |-> JObj(m[k][i])])
            [] OTHER -> JStr(m[k])])

\* the object JSON.parse builds for one element of a message array
MessageFromJson(j) ==
  [k \in DOMAIN j.v |->
     IF k = "attachments" THEN [i \in DOMAIN j.v[k].v |-> j.v[k].v[i].v] ELSE j.v[k].v]

\* JSON.stringify(activeChat, null, 2)
ChatToJson(c) ==
  JObj([ id |-> JStr(c.id), title |-> JStr(c.title),
         messages |-> JArr([i \in DOMAIN c.messages |-> MessageToJson(c.messages[i])]) ])

ValidText(j) == [t |-> "json", v |-> j]
InvalidText == [t |-> "invalid"]

\* file.name.replace(/\.json$/, "")
StripJson(name) ==
  IF name # <<>> /\ name[Len(name)] = ".json" THEN SubSeq(name, 1, Len(name) - 1) ELSE name

\* `${activeChat.title || "chat"}.json`
ExportName(c) == (IF c.title # <<>> THEN c.title ELSE <<"chat">>) \o <<".json">>

\* lines 467: obj && obj.messages && Array.isArray(obj.messages)
Importable(obj) ==
  /\ obj.t = "obj"
  /\ Has(obj.v, "messages")
  /\ Truthy(obj.v.messages)
  /\ obj.v.messages.t = "arr"

\* line 468: the conversation built from an accepted document
ImportedChat(file, id) ==
  LET obj == file.text.v IN
  [ id |-> id,
    title |-> IF Has(obj.v, "title") /\ Truthy(obj.v.title)
              THEN obj.v.title.v ELSE StripJson(file.name),
    messages |-> [i \in DOMAIN obj.v.messages.v |-> MessageFromJson(obj.v.messages.v[i])] ]

\* documents a user may pick for import, besides a file exported earlier
ImportedMessages ==
  << [id |-> 101, role |-> "user", content |-> <<"h", "i">>, timestamp |-> 0,
      attachments |-> << [id |-> 103, name |-> "p.png", type |-> "image",
                          mime |-> "image/png", size |-> 0] >>],
     [id |-> 102, role |-> "assistant", content |-> <<"y", "o">>, timestamp |-> 0],
     [id |-> 101, role |-> "user", content |-> <<"y", "o">>, timestamp |-> 0] >>

UserFiles ==
  { [name |-> <<"bad", ".json">>, text |-> InvalidText],
    [name |-> <<"n", ".json">>, text |-> ValidText(JNull)],
    [name |-> <<"t", ".json">>, text |-> ValidText(JObj([title |-> JStr(<<"T">>)]))],
    [name |-> <<"s", ".json">>,
     text |-> ValidText(JObj([title |-> JStr(<<"T">>), messages |-> JStr(<<"x">>)]))],
    [name |-> <<"e", ".json">>,
     text |-> ValidText(JObj([title |-> JStr(<<"T">>), messages |-> JArr(<<>>)]))],
    [name |-> <<".json">>,
     text |-> ValidText(JObj([messages |->
                JArr([i \in DOMAIN ImportedMessages |-> MessageToJson(ImportedMessages[i])])]))] }

\* ---------------------------------------------------------- picked files
PickedFiles ==
  { << [name |-> "a.png", major |-> "image", type |-> "image/png", size |-> 2,
        data |-> "data:image/png;base64,AA", text |-> <<>>],
       [name |-> "notes", major |-> "", type |-> "", size |-> 2,
        data |-> "", text |-> <<"n", "b">>],
       [name |-> "b.png", major |-> "image", type |-> "image/png", size |-> 2,
        data |-> "data:image/png;base64,BB", text |-> <<>>] >> }

\* lines 441-447: the attachment built for one picked file
ToAttachment(f, id) ==
  IF f.major = "image"
  THEN [ id |-> id, name |-> f.name, type |-> "image", mime |-> f.type,
         dataUrl |-> f.data, size |-> f.size ]
  ELSE [ id |-> id, name |-> f.name, type |-> "file",
         mime |-> IF f.type # "" THEN f.type ELSE "application/octet-stream",
         textPreview |-> SliceTo(f.text, PreviewLen), size |-> f.size ]

\* texts the user may leave in the composer
InputTexts == { <<" ", "h", "i">>, <<"/", "clear">> }

\* personas and addenda the user may choose in the settings panel, which is
\* visited at the start of a session
Styles == {"Claude", "ChatGPT"}
Addenda == { <<" ">>, <<" ", "terse", " ">> }

SlashMap(cmd) ==
  CASE cmd = <<"/", "clear">> -> <<>>
    [] cmd = <<"/", "system">> -> <<"(opens system prompt editor)">>
    [] cmd = <<"/", "summarize">> -> <<"Summarize the conversation so far in bullet points.">>
    [] cmd = <<"/", "tests">> -> <<"Write unit tests for the code above.">>
    [] OTHER -> <<>>

\* --------------------------------------------------------- persisted state
\* JSON.stringify(chats) and JSON.stringify(modelConfig)
ChatsToJson(cs) == JArr([i \in DOMAIN cs |-> ChatToJson(cs[i])])
ConfigToJson(cfg) ==
  JObj([k \in DOMAIN cfg |->
          IF k \in {"temperature", "maxTokens"} THEN JNum(cfg[k]) ELSE JStr(cfg[k])])

\* the effects of lines 217 and 218: each runs when its own dependency changed
\* and hands the new value to JSON.stringify
PersistChats(held) == IF chats' # chats THEN chats' ELSE held
PersistSettings(held) == IF modelConfig' # modelConfig THEN modelConfig' ELSE held

\* the texts localStorage.getItem returns for the two keys
StoredBlobs ==
  [ chats |-> ChatsToJson(localStorage.chats),
    settings |-> ConfigToJson(localStorage.settings) ]

\* What follows a handler's state updates: the component renders again and, if
\* the render did not throw, its effects run. The other screen is not mounted.
Commit ==
  /\ localStorage' =
       IF FindChat(chats', activeChatId') # 0
       THEN [ chats |-> PersistChats(localStorage.chats),
              settings |-> PersistSettings(localStorage.settings) ]
       ELSE localStorage
  /\ UNCHANGED << screen, hf >>

\* ------------------------------------------------------------------- Init
\* what localStorage may hold under LS_KEY_CHATS when the component is constructed:
\* nothing (the seed of line 184), or the list a previous session left there
AnsweredChat ==
  [id |-> 2, title |-> <<"h", "i">>,
   messages |-> << [id |-> 3, role |-> "user", content |-> <<"h", "i">>,
                    attachments |-> << [id |-> 0, name |-> "notes", type |-> "file",
                                        mime |-> "application/octet-stream",
                                        textPreview |-> <<"n", "b">>, size |-> 2] >>,
                    timestamp |-> 0],
                   [id |-> 4, role |-> "assistant", content |-> <<"o", "k">>,
                    timestamp |-> 0] >>]

\* a conversation whose first send failed: its title was never set
FailedChat ==
  [id |-> 2, title |-> <<"New Chat">>,
   messages |-> << [id |-> 3, role |-> "user", content |-> <<"y", "o">>,
                    attachments |-> <<>>, timestamp |-> 0],
                   [id |-> 4, role |-> "assistant", content |-> SendErrorText(HttpError),
                    timestamp |-> 0] >>]

StoredChats ==
  { << [id |-> 1, title |-> <<"New Chat">>, messages |-> <<>>] >>,
    << FailedChat >>,
    << [id |-> 1, title |-> <<"t">>, messages |-> ImportedMessages], AnsweredChat >> }

\* the keys localStorage may hold under LS_KEY_SETTINGS next to a stored list:
\* a first visit has none yet, a session that left conversations stored its key
StoredKeys(cs) ==
  IF \A i \in DOMAIN cs : cs[i].messages = <<>> THEN {""} ELSE ApiKeys \ {""}

\* the reading of the clock when the page is opened, in milliseconds: far
\* from the id of the greeting (line 187 of its file)
Epoch == 10

\* HuggingFaceChatApp after construction (lines 103-118 of its file); sent is
\* the log of the message arrays handed to fetch, pending the number of
\* sendMessage calls that have not settled
HfInit ==
  [ currentView |-> "setup", apiKey |-> "", selectedModel |-> "", messages |-> <<>>,
    inputMessage |-> <<>>, isLoading |-> FALSE, assistantStyle |-> "Claude",
    connect |-> "idle", connectionStatus |-> "idle", sent |-> <<>>, pending |-> 0,
    now |-> Epoch ]

Screens == {"pro", "simple"}

Init ==
  /\ screen \in Screens
  /\ hf = IF screen = "simple" THEN HfInit ELSE 0
  /\ chats \in IF screen = "pro" THEN StoredChats
              ELSE { << [id |-> 1, title |-> <<"New Chat">>, messages |-> <<>>] >> }
  /\ activeChatId = chats[1].id
  /\ assistantStyle = "Claude"
  /\ customSystemPrompt = <<>>
  /\ modelConfig \in {[DefaultConfig EXCEPT !.apiKey = k] : k \in StoredKeys(chats)}
  /\ isStreaming = FALSE
  /\ abortRef = 0
  /\ inputMessage = <<>>
  /\ attachments = <<>>
  /\ reqs = <<>>
  /\ nextId = 5
  /\ clock = 0
  /\ ops = 0
  /\ net = 0
  /\ alertMsg = "none"
  /\ download = NoFile
  /\ localStorage = [chats |-> chats, settings |-> modelConfig]

\* --------------------------------------------------------------- requests
Open(r) == reqs[r].phase # "closed"

\* an abort whose rejection has not been delivered yet: its continuation is a
\* microtask, so it runs before any other event is dispatched
AbortPending == \E r \in DOMAIN reqs : reqs[r].aborted /\ Open(r)

Ready == screen = "pro" /\ Mounted /\ ~AbortPending

\* one more user operation
UserOp == Ready /\ ops < MaxOps /\ ops' = ops + 1 /\ UNCHANGED net

\* a user operation outside the budget
FreeOp == Ready /\ UNCHANGED << ops, net >>

\* one more network event
Continuation == Ready /\ net < MaxNet /\ net' = net + 1 /\ UNCHANGED ops

\* lines 298-312: streamChat up to its first await; result is how its promise
\* settles: "returned", or the message of the error it throws
NewRequest(kind, content, payload) ==
  [ kind |-> kind, chatId |-> activeChatId, title |-> activeChat.title,
    content |-> content, payload |-> payload, phase |-> "fetch", aborted |-> FALSE,
    full |-> <<>>, asstId |-> 0, received |-> <<>>, result |-> "pending" ]

\* the catch of the caller with the error written over the conversation's
\* last message
CaughtOverwrites(cs, r, msg) ==
  [i \in DOMAIN cs |->
     IF cs[i].id = reqs[r].chatId /\ cs[i].messages # <<>>
     THEN [cs[i] EXCEPT !.messages = SubSeq(@, 1, Len(@) - 1)
                                       \o << ErrorMessage(reqs[r], msg) >>]
     ELSE cs[i]]

\* the catch of the caller (lines 395-402 and 430)
Caught(cs, r, msg) == addMessage(cs, reqs[r].chatId, ErrorMessage(reqs[r], msg))

\* lines 392-394: the title update after a successful send
TitleUpdate(cs, r) ==
  IF reqs[r].kind = "send" /\ reqs[r].title = <<"New Chat">> /\ Len(reqs[r].content) > 0
  THEN [i \in DOMAIN cs |->
          IF cs[i].id = reqs[r].chatId
          THEN [cs[i] EXCEPT !.title = SliceTo(reqs[r].content, TitleLen)] ELSE cs[i]]
  ELSE cs

\* line 357 without the trim
IsEmptyResponseNoTrim(full) == full = <<>>

\* line 357
IsEmptyResponse(full) == Trim(full) = <<>>

\* the history of line 429 taken one message too long
RegenHistoryWithPrompt(msgs, i) == SubSeq(msgs, 1, i)

\* line 429: the history handleRegenerate passes with the last user message
RegenHistory(msgs, i) == SubSeq(msgs, 1, i - 1)

\* line 427: what handleRegenerate keeps of the conversation
RegenKeep(msgs, i) == SubSeq(msgs, 1, i)

\* a handler that returns without touching the state
Return ==
  UNCHANGED << chats, activeChatId, settings, isStreaming, abortRef, composer, reqs,
               nextId, clock, download >>

\* ------------------------------------------------------------ user actions
handleSend ==
  /\ UserOp
  /\ LET content == Trim(inputMessage) IN
     IF isStreaming \/ content = <<>> THEN alertMsg' = "none" /\ Return
     ELSE IF modelConfig.apiKey = "" \/ modelConfig.selectedModel = ""
     THEN /\ alertMsg' = "Please set API key and model in Settings (gear icon)"
          /\ Return
     ELSE LET userMsg == [ id |-> nextId, role |-> "user", content |-> content,
                           attachments |-> attachments, timestamp |-> clock ]
          IN /\ Len(reqs) < MaxReq
             /\ chats' = addMessage(chats, activeChatId, userMsg)
             /\ inputMessage' = <<>>
             /\ attachments' = <<>>
             /\ reqs' = Append(reqs, NewRequest("send", content,
                                                buildPayload(userMsg, activeChat.messages)))
             /\ abortRef' = Len(reqs) + 1
             /\ nextId' = nextId + 1
             /\ clock' = clock + 1
             /\ alertMsg' = "none"
             /\ UNCHANGED << activeChatId, settings, isStreaming, download >>
  /\ Commit

\* stopStreaming without line 363: the reference to the controller is kept
stopStreamingKeepsRef ==
  /\ FreeOp
  /\ isStreaming
  /\ reqs' = IF abortRef # 0 /\ Open(abortRef)
             THEN [reqs EXCEPT ![abortRef].aborted = TRUE] ELSE reqs
  /\ isStreaming' = FALSE
  /\ alertMsg' = "none"
  /\ UNCHANGED << chats, activeChatId, settings, composer, nextId, clock,
                  download, abortRef >>
  /\ Commit

stopStreaming ==
  /\ FreeOp
  /\ isStreaming
  /\ reqs' = IF abortRef # 0 /\ Open(abortRef)
             THEN [reqs EXCEPT ![abortRef].aborted = TRUE] ELSE reqs
  /\ abortRef' = 0
  /\ isStreaming' = FALSE
  /\ alertMsg' = "none"
  /\ UNCHANGED << chats, activeChatId, settings, composer, nextId, clock,
                  download >>
  /\ Commit

handleEditMessage(mid) ==
  /\ UserOp
  /\ LET msgs == activeChat.messages
         k == FindIndex(msgs, mid)
     IN /\ k # 0
        /\ inputMessage' = msgs[k].content
        /\ attachments' = AttachmentsOf(msgs[k])
        /\ LET F(ms) == IF FindIndex(ms, mid) = 0 THEN ms
                        ELSE SubSeq(ms, 1, FindIndex(ms, mid) - 1)
           IN chats' = MapMessages(chats, activeChatId, F)
  /\ alertMsg' = "none"
  /\ UNCHANGED << activeChatId, settings, isStreaming, abortRef, reqs, nextId, clock,
                  download >>
  /\ Commit

handleRegenerate ==
  /\ UserOp
  /\ MsgCount > 0
  /\ activeChat.messages[MsgCount].role = "assistant"
  /\ alertMsg' = "none"
  /\ LET msgs == activeChat.messages
         i == LastWithRole(msgs, "user")
     IN IF i = 0 THEN Return
        ELSE /\ Len(reqs) < MaxReq
             /\ LET F(ms) == RegenKeep(msgs, i)
                IN chats' = MapMessages(chats, activeChatId, F)
             /\ reqs' = Append(reqs, NewRequest("regen", msgs[i].content,
                                  buildPayload(msgs[i], RegenHistory(msgs, i))))
             /\ abortRef' = Len(reqs) + 1
             /\ UNCHANGED << activeChatId, settings, isStreaming, composer, nextId, clock,
                             download >>
  /\ Commit

newChat ==
  /\ UserOp
  /\ chats' = << [id |-> nextId, title |-> <<"New Chat">>, messages |-> <<>>] >> \o chats
  /\ activeChatId' = nextId
  /\ inputMessage' = <<>>
  /\ attachments' = <<>>
  /\ nextId' = nextId + 1
  /\ alertMsg' = "none"
  /\ UNCHANGED << settings, isStreaming, abortRef, reqs, clock, download >>
  /\ Commit

\* lines 234-237 with the last remaining conversation picked at line 236
deleteChatPicksLast(id) ==
  /\ UserOp
  /\ LET keep(c) == c.id # id IN chats' = SelectSeq(chats, keep)
  /\ activeChatId' =
       IF id = activeChatId /\ Len(chats) > 1
       THEN chats[CHOOSE i \in DOMAIN chats :
                    chats[i].id # id /\ \A j \in (i + 1)..Len(chats) : chats[j].id = id].id
       ELSE activeChatId
  /\ alertMsg' = "none"
  /\ UNCHANGED << settings, isStreaming, abortRef, composer, reqs, nextId, clock,
                  download >>
  /\ Commit

deleteChat(id) ==
  /\ UserOp
  /\ LET keep(c) == c.id # id IN chats' = SelectSeq(chats, keep)
  /\ activeChatId' =
       IF id = activeChatId /\ Len(chats) > 1
       THEN chats[CHOOSE i \in DOMAIN chats :
                    chats[i].id # id /\ \A j \in 1..(i - 1) : chats[j].id = id].id
       ELSE activeChatId
  /\ alertMsg' = "none"
  /\ UNCHANGED << settings, isStreaming, abortRef, composer, reqs, nextId, clock,
                  download >>
  /\ Commit

\* the sidebar row's onClick (line 507)
selectChat(id) ==
  /\ UserOp
  /\ activeChatId' = id
  /\ alertMsg' = "none"
  /\ UNCHANGED << chats, settings, isStreaming, abortRef, composer, reqs, nextId, clock,
                  download >>
  /\ Commit

exportChat ==
  /\ UserOp
  /\ download' = [name |-> ExportName(activeChat), text |-> ValidText(ChatToJson(activeChat))]
  /\ alertMsg' = "none"
  /\ UNCHANGED << chats, activeChatId, settings, isStreaming, abortRef, composer, reqs,
                  nextId, clock >>
  /\ Commit

\* importChat with setActiveChatId ahead of the validation of line 467
importChatEager(file) ==
  /\ UserOp
  /\ IF file.text.t = "invalid"
     THEN /\ alertMsg' = "Failed to parse JSON"
          /\ UNCHANGED << chats, activeChatId, nextId >>
     ELSE IF ~Importable(file.text.v)
     THEN /\ alertMsg' = "Invalid chat JSON"
          /\ activeChatId' = nextId
          /\ nextId' = nextId + 1
          /\ UNCHANGED chats
     ELSE /\ chats' = << ImportedChat(file, nextId) >> \o chats
          /\ activeChatId' = nextId
          /\ nextId' = nextId + 1
          /\ alertMsg' = "none"
  /\ UNCHANGED << settings, isStreaming, abortRef, composer, reqs, clock,
                  download >>
  /\ Commit

importChat(file) ==
  /\ UserOp
  /\ IF file.text.t = "invalid"
     THEN /\ alertMsg' = "Failed to parse JSON"
          /\ UNCHANGED << chats, activeChatId, nextId >>
     ELSE IF ~Importable(file.text.v)
     THEN /\ alertMsg' = "Invalid chat JSON"
          /\ UNCHANGED << chats, activeChatId, nextId >>
     ELSE /\ chats' = << ImportedChat(file, nextId) >> \o chats
          /\ activeChatId' = nextId
          /\ nextId' = nextId + 1
          /\ alertMsg' = "none"
  /\ UNCHANGED << settings, isStreaming, abortRef, composer, reqs, clock,
                  download >>
  /\ Commit

\* lines 476-494, as called from the textarea's onChange
handleSlash(v) ==
  LET cmd == Trim(v) IN
  IF cmd = <<"/", "clear">>
  THEN /\ LET F(ms) == <<>> IN chats' = MapMessages(chats, activeChatId, F)
       /\ inputMessage' = v
  ELSE /\ inputMessage' = IF SlashMap(cmd) # <<>> /\ cmd # <<"/", "system">>
                          THEN SlashMap(cmd) ELSE v
       /\ UNCHANGED chats

\* the textarea's onChange (lines 680-684); the textarea is disabled while streaming
onChange(v) ==
  /\ IF StartsWithSlash(v) THEN UserOp ELSE FreeOp
  /\ ~isStreaming
  /\ IF StartsWithSlash(v) THEN handleSlash(v)
     ELSE inputMessage' = v /\ UNCHANGED chats
  /\ alertMsg' = "none"
  /\ UNCHANGED << activeChatId, settings, isStreaming, abortRef, attachments, reqs,
                  nextId, clock, download >>
  /\ Commit

onPickFiles(files) ==
  /\ UserOp
  /\ attachments' = attachments \o
       [i \in DOMAIN files |-> ToAttachment(files[i], nextId + i - 1)]
  /\ nextId' = nextId + Len(files)
  /\ alertMsg' = "none"
  /\ UNCHANGED << chats, activeChatId, settings, isStreaming, abortRef, inputMessage,
                  reqs, clock, download >>
  /\ Commit

removeAttachment(id) ==
  /\ UserOp
  /\ LET keep(a) == a.id # id IN attachments' = SelectSeq(attachments, keep)
  /\ alertMsg' = "none"
  /\ UNCHANGED << chats, activeChatId, settings, isStreaming, abortRef, inputMessage,
                  reqs, nextId, clock, download >>
  /\ Commit

\* the API-key input's onChange (line 517), in the same panel
setApiKey(k) ==
  /\ UserOp
  /\ ops = 0
  /\ modelConfig' = [modelConfig EXCEPT !.apiKey = k]
  /\ alertMsg' = "none"
  /\ UNCHANGED << chats, activeChatId, assistantStyle, customSystemPrompt, isStreaming,
                  abortRef, composer, reqs, nextId, clock, download >>
  /\ Commit

\* the persona select's onChange (line 542)
setAssistantStyle(style) ==
  /\ UserOp
  /\ ops = 0
  /\ assistantStyle' = style
  /\ alertMsg' = "none"
  /\ UNCHANGED << chats, activeChatId, customSystemPrompt, modelConfig, isStreaming,
                  abortRef, composer, reqs, nextId, clock, download >>
  /\ Commit

\* the system prompt box's onChange (line 578)
setCustomSystemPrompt(text) ==
  /\ UserOp
  /\ ops = 0
  /\ customSystemPrompt' = text
  /\ alertMsg' = "none"
  /\ UNCHANGED << chats, activeChatId, assistantStyle, modelConfig, isStreaming,
                  abortRef, composer, reqs, nextId, clock, download >>
  /\ Commit

\* ------------------------------------------------- streamChat continuations
\* lines 314-327: the response arrived with res.ok and a body
FetchOk(r) ==
  /\ Continuation
  /\ reqs[r].phase = "fetch"
  /\ isStreaming' = TRUE
  /\ chats' = addMessage(chats, reqs[r].chatId,
                [id |-> nextId, role |-> "assistant", content |-> <<>>, timestamp |-> clock])
  /\ reqs' = [reqs EXCEPT ![r].phase = "read", ![r].asstId = nextId]
  /\ nextId' = nextId + 1
  /\ clock' = clock + 1
  /\ alertMsg' = "none"
  /\ UNCHANGED << activeChatId, settings, abortRef, composer, download >>
  /\ Commit

\* lines 314-317: the response is not ok (a rejected fetch takes the same path
\* with its own message, as in AbortUnwind)
FetchFails(r, msg) ==
  /\ Continuation
  /\ reqs[r].phase = "fetch"
  /\ chats' = Caught(chats, r, msg)
  /\ reqs' = [reqs EXCEPT ![r].phase = "closed", ![r].result = msg]
  /\ nextId' = nextId + 1
  /\ clock' = clock + 1
  /\ alertMsg' = "none"
  /\ UNCHANGED << activeChatId, settings, isStreaming, abortRef, composer,
                  download >>
  /\ Commit

\* lines 331-350: one iteration of the read loop with done = false
ReadChunk(r, chunk) ==
  /\ Continuation
  /\ reqs[r].phase = "read"
  /\ \E body \in Bodies : IsPrefix(Append(reqs[r].received, chunk), body)
  /\ chats' = ApplyDeltas(chats, reqs[r].chatId, ChunkDeltas(chunk))
  /\ reqs' = [reqs EXCEPT ![r].full = @ \o Concat(ChunkDeltas(chunk)),
                          ![r].received = Append(@, chunk)]
  /\ alertMsg' = "none"
  /\ UNCHANGED << activeChatId, settings, isStreaming, abortRef, composer, nextId, clock,
                  download >>
  /\ Commit

\* lines 332, 352-358 and the caller's continuation: the body ended
ReadDone(r) ==
  /\ Continuation
  /\ reqs[r].phase = "read"
  /\ reqs[r].received \in Bodies
  /\ isStreaming' = FALSE
  /\ abortRef' = 0
  /\ IF IsEmptyResponse(reqs[r].full)
     THEN chats' = Caught(chats, r, EmptyResponse)
          /\ nextId' = nextId + 1 /\ clock' = clock + 1
     ELSE chats' = TitleUpdate(chats, r) /\ UNCHANGED << nextId, clock >>
  /\ reqs' = [reqs EXCEPT ![r].phase = "closed",
                          ![r].result = IF IsEmptyResponse(reqs[r].full)
                                        THEN EmptyResponse ELSE "returned"]
  /\ alertMsg' = "none"
  /\ UNCHANGED << activeChatId, settings, composer, download >>
  /\ Commit

\* lines 331 and the caller's catch, with the finally block of lines 352-355
\* left out
ReadFailsNoCleanup(r) ==
  /\ Continuation
  /\ reqs[r].phase = "read"
  /\ chats' = Caught(chats, r, NetworkError)
  /\ reqs' = [reqs EXCEPT ![r].phase = "closed", ![r].result = NetworkError]
  /\ nextId' = nextId + 1
  /\ clock' = clock + 1
  /\ alertMsg' = "none"
  /\ UNCHANGED << activeChatId, settings, composer, download, isStreaming, abortRef >>
  /\ Commit

\* lines 331, 352-355 and the caller's catch: reader.read() rejected
ReadFails(r) ==
  /\ Continuation
  /\ reqs[r].phase = "read"
  /\ isStreaming' = FALSE
  /\ abortRef' = 0
  /\ chats' = Caught(chats, r, NetworkError)
  /\ reqs' = [reqs EXCEPT ![r].phase = "closed", ![r].result = NetworkError]
  /\ nextId' = nextId + 1
  /\ clock' = clock + 1
  /\ alertMsg' = "none"
  /\ UNCHANGED << activeChatId, settings, composer, download >>
  /\ Commit

\* the rejection an abort() delivers to the await the request is suspended at
AbortUnwind(r) ==
  /\ screen = "pro" /\ Mounted /\ UNCHANGED << ops, net >>
  /\ reqs[r].aborted /\ Open(r)
  /\ IF reqs[r].phase = "read"
     THEN isStreaming' = FALSE /\ abortRef' = 0
     ELSE UNCHANGED << isStreaming, abortRef >>
  /\ chats' = Caught(chats, r, AbortError)
  /\ reqs' = [reqs EXCEPT ![r].phase = "closed", ![r].result = AbortError]
  /\ nextId' = nextId + 1
  /\ clock' = clock + 1
  /\ alertMsg' = "none"
  /\ UNCHANGED << activeChatId, settings, composer, download >>
  /\ Commit

\* ------------------------------------------------------- the simple screen
HfStylePrompts ==
  [ Default |-> <<"You are a concise, helpful assistant.">>,
    Claude  |-> <<"Adopt Anthropic Claude's tone: warm, thoughtful, and structured.">>,
    ChatGPT |-> <<"Adopt ChatGPT's tone: friendly, practical, and well-organized.">>,
    Qwen    |-> <<"Adopt Qwen's tone: crisp, technical, and example-driven.">> ]

HfModels == {"", "qwen/qwen-2-7b-instruct:free"}

\* what a user types into the textarea of the simple screen, which has no
\* slash commands
HfInputTexts == { <<" ", "h", "i">> }

\* milliseconds that pass before a handler reads Date.now()
Elapsed == {1, 2}

\* how a sendMessage call may settle
Outcomes == {"ok", "http", "malformed", "network"}

HfReply == <<"o", "k">>

\* the message of the error sendMessage catches (lines 242-259 of its file)
HfErrorOf(outcome) ==
  CASE outcome = "http" -> "API Error 401: Unauthorized"
    [] outcome = "malformed" -> "Invalid response format from OpenRouter API"
    [] OTHER -> "Failed to fetch"

HfErrorText(msg) ==
  << "## Uh-oh!\n\nI hit an error: **", msg,
     "**.\n\n**Try**\n- Re-check your API key\n- Confirm the model ID\n- Ensure your base URL is correct" >>

\* lines 204-208
buildPayloadMessages(userMessage) ==
  LET history == Append(hf.messages, userMessage)
  IN << [role |-> "system", content |-> PlainContent(HfStylePrompts[hf.assistantStyle])] >>
     \o [i \in DOMAIN history |->
           [role |-> history[i].role, content |-> PlainContent(history[i].content)]]

\* a handler of the simple screen: ProChat is not mounted
HfStep == screen = "simple" /\ UNCHANGED << pro, screen >>
HfOp == HfStep /\ ops < MaxOps /\ ops' = ops + 1 /\ UNCHANGED net
HfFree == HfStep /\ UNCHANGED << ops, net >>
HfContinuation == HfStep /\ net < MaxNet /\ net' = net + 1 /\ UNCHANGED ops

\* the inputs of the setup view (lines 309 and 381), filled in before the
\* first conversation
hfConfigure(key, model) ==
  /\ HfFree
  /\ ops = 0
  /\ hf.currentView = "setup"
  /\ hf' = [hf EXCEPT !.apiKey = key, !.selectedModel = model]

\* lines 165-176: handleConnect up to its await
handleConnect ==
  /\ HfFree
  /\ hf.currentView = "setup"
  /\ hf.connect = "idle"
  /\ hf.apiKey # "" /\ hf.selectedModel # ""
  /\ hf' = [hf EXCEPT !.connect = "testing", !.connectionStatus = "idle"]

\* lines 178-201: testConnection has answered
ConnectResult(isConnected) ==
  /\ HfFree
  /\ hf.connect = "testing"
  /\ hf' = IF isConnected
           THEN [hf EXCEPT !.connect = "timer", !.connectionStatus = "success"]
           ELSE [hf EXCEPT !.connect = "idle", !.connectionStatus = "error"]

\* lines 183-196: the callback of setTimeout
ConnectTimer ==
  /\ HfFree
  /\ hf.connect = "timer"
  /\ hf' = [hf EXCEPT !.connect = "idle", !.currentView = "chat",
                      !.messages = << [id |-> 1, role |-> "assistant",
                                       content |-> <<"## Connected", hf.selectedModel,
                                                     hf.assistantStyle>>,
                                       timestamp |-> hf.now] >>]

\* the Settings button of the chat view (line 510)
openSetup ==
  /\ HfOp
  /\ hf.currentView = "chat"
  /\ hf' = [hf EXCEPT !.currentView = "setup"]

\* the persona select (lines 340 and 501)
hfSetAssistantStyle(style) ==
  /\ HfOp
  /\ hf' = [hf EXCEPT !.assistantStyle = style]

\* the textarea of the chat view (lines 596 and 602)
hfSetInputMessage(v) ==
  /\ HfFree
  /\ hf.currentView = "chat"
  /\ ~hf.isLoading
  /\ hf' = [hf EXCEPT !.inputMessage = v]

\* lines 210-236: sendMessage up to its await
sendMessage(d) ==
  /\ HfOp
  /\ hf.currentView = "chat"
  /\ IF Trim(hf.inputMessage) = <<>> \/ hf.isLoading
     THEN hf' = hf
     ELSE LET t == hf.now + d
              userMessage == [ id |-> t, role |-> "user",
                               content |-> Trim(hf.inputMessage), timestamp |-> t ]
          IN hf' = [hf EXCEPT !.messages = Append(@, userMessage),
                              !.inputMessage = <<>>,
                              !.isLoading = TRUE,
                              !.sent = Append(@, buildPayloadMessages(userMessage)),
                              !.pending = @ + 1,
                              !.now = t]

\* lines 238-270 without the finally block: only the branch of the reply
\* clears isLoading
SendSettlesNoFinally(outcome) ==
  /\ HfContinuation
  /\ hf.pending > 0
  /\ LET t == hf.now + 1
         reply == [ id |-> t + 1, role |-> "assistant",
                    content |-> IF outcome = "ok" THEN HfReply
                                ELSE HfErrorText(HfErrorOf(outcome)),
                    timestamp |-> t ]
     IN hf' = [hf EXCEPT !.messages = Append(@, reply),
                         !.isLoading = IF outcome = "ok" THEN FALSE ELSE @,
                         !.pending = @ - 1,
                         !.now = t]

\* lines 238-270: the request settles, one way or another, a millisecond
\* of network time later
SendSettles(outcome) ==
  /\ HfContinuation
  /\ hf.pending > 0
  /\ LET t == hf.now + 1
         reply == [ id |-> t + 1, role |-> "assistant",
                    content |-> IF outcome = "ok" THEN HfReply
                                ELSE HfErrorText(HfErrorOf(outcome)),
                    timestamp |-> t ]
     IN hf' = [hf EXCEPT !.messages = Append(@, reply),
                         !.isLoading = FALSE,
                         !.pending = @ - 1,
                         !.now = t]

\* ------------------------------------------------------------------- Next
Next ==
  \/ handleSend
  \/ stopStreaming
  \/ \E i \in 1..MsgCount :
       activeChat.messages[i].role = "user" /\ handleEditMessage(activeChat.messages[i].id)
  \/ handleRegenerate
  \/ newChat
  \/ \E i \in DOMAIN chats : deleteChat(chats[i].id)
  \/ \E i \in DOMAIN chats : selectChat(chats[i].id)
  \/ exportChat
  \/ \E file \in UserFiles \cup ({download} \ {NoFile}) : importChat(file)
  \/ \E v \in InputTexts : onChange(v)
  \/ \E files \in PickedFiles : onPickFiles(files)
  \/ \E i \in DOMAIN attachments : removeAttachment(attachments[i].id)
  \/ \E k \in ApiKeys : setApiKey(k)
  \/ \E style \in Styles : setAssistantStyle(style)
  \/ \E text \in Addenda : setCustomSystemPrompt(text)
  \/ \E r \in DOMAIN reqs : FetchOk(r)
  \/ \E r \in DOMAIN reqs : \E msg \in {HttpError} : FetchFails(r, msg)
  \/ \E r \in DOMAIN reqs : \E chunk \in {ChunkOk, ChunkBlank} : ReadChunk(r, chunk)
  \/ \E r \in DOMAIN reqs : ReadDone(r)
  \/ \E r \in DOMAIN reqs : ReadFails(r)
  \/ \E r \in DOMAIN reqs : AbortUnwind(r)
  \/ \E key \in ApiKeys : \E model \in HfModels : hfConfigure(key, model)
  \/ handleConnect
  \/ \E isConnected \in BOOLEAN : ConnectResult(isConnected)
  \/ ConnectTimer
  \/ openSetup
  \/ \E style \in Styles : hfSetAssistantStyle(style)
  \/ \E v \in HfInputTexts : hfSetInputMessage(v)
  \/ \E d \in Elapsed : sendMessage(d)
  \/ \E outcome \in Outcomes : SendSettles(outcome)

Spec == Init /\ [][Next]_vars

\* the network's next event for request r: the response or the failure of
\* the fetch, a chunk, the end or the failure of the body, the delivery of an
\* abort
Settle(r) ==
  /\ r \in DOMAIN reqs
  /\ \/ FetchOk(r)
     \/ \E msg \in {HttpError} : FetchFails(r, msg)
     \/ \E chunk \in {ChunkOk, ChunkBlank} : ReadChunk(r, chunk)
     \/ ReadDone(r)
     \/ ReadFails(r)
     \/ AbortUnwind(r)

\* the program behind a network that leaves no request and no stream waiting
\* for ever
FairSpec == Spec /\ \A r \in 1..MaxReq : WF_vars(Settle(r))

\* the same program behind a network that may also hand over a response in
\* reads that end in the middle of a line
ReadCut == \E r \in DOMAIN reqs : \E chunk \in {ChunkHead, ChunkTail} : ReadChunk(r, chunk)
SplitNext == Next \/ ReadCut
SplitSpec == Init /\ [][SplitNext]_vars

\* ================================================================ claims
OpenReqs == {r \in DOMAIN reqs : Open(r)}

\* the step appends a request issued by handleSend / by handleRegenerate
SendAccepted ==
  Len(reqs') = Len(reqs) + 1 /\ reqs'[Len(reqs')].kind = "send"
RegenAccepted ==
  Len(reqs') = Len(reqs) + 1 /\ reqs'[Len(reqs')].kind = "regen"

\* messages of the conversation with the given id, <<>> when it is gone
MessagesOf(cs, id) == IF FindChat(cs, id) = 0 THEN <<>> ELSE cs[FindChat(cs, id)].messages

\* C1 (as claimed): while a request issued by handleSend is in flight, from the
\* fetch until its read loop has exited, no step is an accepted handleSend: a
\* second send appends no message and issues no request.
C1_SecondSendRejected ==
  [][(\E r \in OpenReqs : reqs[r].kind = "send") => ~SendAccepted]_vars

\* C2 (as claimed): in every reachable state at most one generation request is
\* active.
C2_AtMostOneActive == Cardinality(OpenReqs) <= 1

\* C3: the step in which an aborted request unwinds ends with isStreaming false
\* and abortRef null, whatever had been accumulated and whether or not the
\* response headers had arrived.
C3_AbortClears ==
  [][\A r \in DOMAIN reqs :
       (reqs[r].aborted /\ Open(r) /\ reqs'[r].phase = "closed")
         => (isStreaming' = FALSE /\ abortRef' = 0)]_vars

\* C3 witness: a request aborted before its response headers arrived has unwound
C3_Witness ==
  \E r \in DOMAIN reqs :
    /\ reqs[r].result = AbortError
    /\ reqs[r].asstId = 0
    /\ ~isStreaming /\ abortRef = 0

\* the step in which the read loop of request r ends because the body ended
StreamCompletes(r) ==
  reqs[r].phase = "read" /\ reqs'[r].result \in {"returned", EmptyResponse}

IsErrorMessage(m, msg) ==
  m.role = "assistant" /\ \E k \in DOMAIN m.content : m.content[k] = msg

\* the step keeps every message of request r's conversation and appends one
\* assistant message reporting msg
ErrorAppended(r, msg) ==
  LET before == MessagesOf(chats, reqs[r].chatId)
      after == MessagesOf(chats', reqs[r].chatId)
  IN /\ Len(after) = Len(before) + 1
     /\ SubSeq(after, 1, Len(before)) = before
     /\ IsErrorMessage(after[Len(after)], msg)

Blank(text) == \A k \in DOMAIN text : IsSpace(text[k])

\* C4 (as claimed): when a stream completes, the empty-response error is raised
\* exactly when the accumulated text is empty, and then the conversation keeps
\* its messages, the placeholder among them, and gains one assistant error
\* message.
C4_ErrorIffNoDelta ==
  [][\A r \in DOMAIN reqs :
       StreamCompletes(r) =>
         /\ (reqs'[r].result = EmptyResponse) <=> (reqs[r].full = <<>>)
         /\ (reqs[r].full = <<>> /\ FindChat(chats, reqs[r].chatId) # 0)
              => ErrorAppended(r, EmptyResponse)]_vars

\* C4 (amended): when a stream completes, the empty-response error is raised
\* exactly when the accumulated text is empty or only whitespace, and then the
\* conversation the request was sent from, if it still exists, keeps its
\* messages and gains one assistant error message; otherwise no message is added.
C4_ErrorIffBlank ==
  [][\A r \in DOMAIN reqs :
       StreamCompletes(r) =>
         /\ (reqs'[r].result = EmptyResponse) <=> Blank(reqs[r].full)
         /\ (Blank(reqs[r].full) /\ FindChat(chats, reqs[r].chatId) # 0)
              => ErrorAppended(r, EmptyResponse)
         /\ ~Blank(reqs[r].full)
              => \A i \in DOMAIN chats :
                   Len(MessagesOf(chats', chats[i].id)) = Len(chats[i].messages)]_vars

\* C4 witness: a stream has completed without any delta; its empty placeholder
\* is still in the conversation, followed by the error message
C4_Witness ==
  \E r \in DOMAIN reqs :
    /\ reqs[r].result = EmptyResponse
    /\ reqs[r].full = <<>>
    /\ LET ms == MessagesOf(chats, reqs[r].chatId)
       IN \E k \in 1..(Len(ms) - 1) :
            /\ ms[k].id = reqs[r].asstId
            /\ ms[k].content = <<>>
            /\ IsErrorMessage(ms[k + 1], EmptyResponse)

\* C5 (as claimed): handleEditMessage on the k-th message of the active
\* conversation leaves exactly the messages before it and sets the composer
\* text and attachments to those of that message.
C5_EditTruncatesAtK ==
  [][\A k \in 1..MsgCount :
       (activeChat.messages[k].role = "user"
        /\ handleEditMessage(activeChat.messages[k].id))
         => /\ MessagesOf(chats', activeChatId) = SubSeq(activeChat.messages, 1, k - 1)
            /\ inputMessage' = activeChat.messages[k].content
            /\ attachments' = AttachmentsOf(activeChat.messages[k])]_vars

\* text of a request message's content, plain or in parts
TextOf(content) ==
  IF content.kind = "string" THEN content.text ELSE content.parts[1].text

IsLastUser(msgs, i) ==
  /\ i \in DOMAIN msgs
  /\ msgs[i].role = "user"
  /\ \A j \in DOMAIN msgs : j > i => msgs[j].role # "user"

\* C6: handleRegenerate on a conversation with a user message keeps the
\* messages up to the most recent user message, and issues exactly one request:
\* system prompt, then the messages before that user message, then that message.
C6_RegenerateRequest ==
  [][handleRegenerate =>
       \A i \in 1..MsgCount :
         IsLastUser(activeChat.messages, i) =>
           LET msgs == activeChat.messages
               p == reqs'[Len(reqs')].payload.messages
           IN /\ MessagesOf(chats', activeChatId) = SubSeq(msgs, 1, i)
              /\ Len(reqs') = Len(reqs) + 1
              /\ SubSeq(reqs', 1, Len(reqs)) = reqs
              /\ reqs'[Len(reqs')].phase = "fetch"
              /\ Len(p) = i + 1
              /\ p[1].role = "system"
              /\ p[i + 1].role = "user"
              /\ TextOf(p[i + 1].content) = msgs[i].content
              /\ \A j \in 1..(i - 1) :
                   /\ p[j + 1].role = msgs[j].role
                   /\ TextOf(p[j + 1].content) = msgs[j].content]_vars

\* C6 witness: a regenerate request with a history of at least two messages
\* has been issued and the conversation ends at its user message
C6_Witness ==
  \E r \in DOMAIN reqs :
    /\ reqs[r].kind = "regen"
    /\ reqs[r].phase = "fetch"
    /\ Len(reqs[r].payload.messages) >= 4
    /\ LET ms == MessagesOf(chats, reqs[r].chatId)
       IN /\ Len(ms) = Len(reqs[r].payload.messages) - 1
          /\ ms[Len(ms)].role = "user"
          /\ ms[Len(ms)].content = reqs[r].content

\* a document without a message array: not JSON, not an object, no messages
\* field, or a messages field that is not a list
BadDocument(file) ==
  \/ file.text.t = "invalid"
  \/ file.text.v.t # "obj"
  \/ ~Has(file.text.v.v, "messages")
  \/ file.text.v.v.messages.t # "arr"

FormatAlerts == {"Invalid chat JSON", "Failed to parse JSON"}

\* C7: importing a document that is not JSON, has no messages field or has a
\* messages field that is not a list reports a format error and leaves the
\* conversation list and the active conversation unchanged.
C7_BadImportRejected ==
  [][\A file \in UserFiles :
       (BadDocument(file) /\ importChat(file))
         => (alertMsg' \in FormatAlerts /\ UNCHANGED << chats, activeChatId >>)]_vars

\* C7 witness: a format error has just been reported for a picked file
C7_Witness == alertMsg \in FormatAlerts /\ ops > 0

EmptyList(file) ==
  /\ ~BadDocument(file)
  /\ file.text.v.v.messages.v = <<>>

\* C8 (as claimed): a document whose messages field is an empty list is not
\* accepted: importing it adds no conversation.
C8_EmptyListRejected ==
  [][\A file \in UserFiles :
       (EmptyList(file) /\ importChat(file)) => UNCHANGED << chats, activeChatId >>]_vars

\* C8 (amended): import requires a message array, which may be empty: a
\* document whose messages field is not a list is rejected, and one whose
\* messages field is an empty list becomes a new active conversation with no
\* messages, put in front of the others.
C8_EmptyListAccepted ==
  [][\A file \in UserFiles :
       /\ (BadDocument(file) /\ importChat(file)) => UNCHANGED chats
       /\ (EmptyList(file) /\ importChat(file))
            => /\ Len(chats') = Len(chats) + 1
               /\ Tail(chats') = chats
               /\ chats'[1].messages = <<>>
               /\ activeChatId' = chats'[1].id
               /\ alertMsg' \notin FormatAlerts]_vars

\* C8 witness: the conversation imported from the document with an empty
\* message list is the active one
C8_Witness ==
  /\ Mounted
  /\ activeChat = chats[1]
  /\ activeChat.messages = <<>>
  /\ activeChat.title = <<"T">>

\* what importing the given file yields for the conversation c it was exported from
ComesBack(c, file, title) ==
  /\ ~BadDocument(file)
  /\ Importable(file.text.v)
  /\ ImportedChat(file, nextId).messages = c.messages
  /\ ImportedChat(file, nextId).title = title

\* importing the exported file puts the conversation it holds in front and
\* makes it the active one
ImportActivates ==
  (download # NoFile /\ importChat(download))
    => /\ chats' = << ImportedChat(download, nextId) >> \o chats
       /\ activeChatId' = nextId
       /\ nextId \notin ChatIds

IsImage(a) == a.type = "image"
HasImageData(a) == a.type = "image" /\ Has(a, "dataUrl") /\ a.dataUrl # ""

\* the content of a request message is the text followed by a reference to
\* each of the given attachments, in order
IsPartsOf(content, text, imgs) ==
  /\ content.kind = "array"
  /\ Len(content.parts) = 1 + Len(imgs)
  /\ content.parts[1] = [type |-> "text", text |-> text]
  /\ \A n \in DOMAIN imgs :
       content.parts[n + 1] = [type |-> "image_url", image_url |-> imgs[n].dataUrl]

\* the user message an accepted handleSend appends and the content sent for it
SentMessage == LET ms == MessagesOf(chats', activeChatId) IN ms[Len(ms)]
SentContent ==
  LET p == reqs'[Len(reqs')].payload.messages IN p[Len(p)].content

\* C10 (as claimed): the content sent for a new user message is the text part
\* followed by one image reference per image attachment, in attachment order,
\* when the message has an image attachment, and the plain string otherwise.
C10_PartsIffImage ==
  [][SendAccepted =>
       LET imgs == SelectSeq(AttachmentsOf(SentMessage), IsImage)
       IN IF imgs # <<>>
          THEN IsPartsOf(SentContent, SentMessage.content, imgs)
          ELSE SentContent = [kind |-> "string", text |-> SentMessage.content]]_vars

\* C10 (amended): the content sent for a new user message is the text part
\* followed by one image reference per image attachment that carries a data
\* URL, in attachment order, when the message has such an attachment, and the
\* plain string otherwise.
C10_PartsIffImageData ==
  [][SendAccepted =>
       LET imgs == SelectSeq(AttachmentsOf(SentMessage), HasImageData)
       IN IF imgs # <<>>
          THEN IsPartsOf(SentContent, SentMessage.content, imgs)
          ELSE SentContent = [kind |-> "string", text |-> SentMessage.content]]_vars

\* C10 witness: a message with two images around a text file has been sent as
\* the text part and the two image references in the order they were picked
C10_Witness ==
  \E r \in DOMAIN reqs :
    /\ reqs[r].kind = "send"
    /\ LET p == reqs[r].payload.messages
           c == p[Len(p)].content
       IN /\ c.kind = "array"
          /\ Len(c.parts) = 3
          /\ c.parts[1].text = reqs[r].content
          /\ c.parts[2].image_url = "data:image/png;base64,AA"
          /\ c.parts[3].image_url = "data:image/png;base64,BB"

\* the step appends a request, whichever handler issued it
RequestIssued == Len(reqs') = Len(reqs) + 1
IssuedMessages == reqs'[Len(reqs')].payload.messages

NoImage(m) == \A n \in DOMAIN AttachmentsOf(m) : ~IsImage(AttachmentsOf(m)[n])

\* C11 (as claimed): every history message placed in a request keeps a single
\* plain-text content field when it carries no image attachment, also when
\* all its attachments are files that are not images.
C11_HistoryPlainWithoutImage ==
  [][RequestIssued =>
       LET conv == MessagesOf(chats', activeChatId)
       IN \A j \in 1..(Len(IssuedMessages) - 2) :
            NoImage(conv[j]) =>
              IssuedMessages[j + 1].content = [kind |-> "string", text |-> conv[j].content]]_vars

\* the request message that carries exactly the given role and text
Carries(pm, role, text) == pm.role = role /\ TextOf(pm.content) = text

\* the message array p is one system message with the given text followed by
\* the prior messages in order and then, once, by the new user message
IsRequestFor(p, sys, prior, new) ==
  /\ Len(p) = Len(prior) + 2
  /\ p[1] = [role |-> "system", content |-> [kind |-> "string", text |-> sys]]
  /\ \A j \in DOMAIN prior : Carries(p[j + 1], prior[j].role, prior[j].content)
  /\ Carries(p[Len(p)], "user", new.content)
  /\ new.role = "user"

\* the persona's fixed text, then two newlines and the trimmed addendum when
\* the addendum is not blank
PersonaText ==
  STYLE_PROMPTS[assistantStyle] \o
    (IF Blank(customSystemPrompt) THEN <<>> ELSE <<"\n\n">> \o Trim(customSystemPrompt))

\* a step of the simple screen that hands a message array to fetch
HfRequestIssued == screen = "simple" /\ Len(hf'.sent) = Len(hf.sent) + 1

IsNotice(m, msg) == m.role = "assistant" /\ Len(m.content) = 3 /\ m.content[2] = msg

\* what the notice quotes for each way a request of the simple screen fails
NoticeOf(outcome) ==
  CASE outcome = "http" -> "API Error 401: Unauthorized"
    [] outcome = "malformed" -> "Invalid response format from OpenRouter API"
    [] outcome = "network" -> "Failed to fetch"

\* C13: on the simple screen an accepted send appends exactly one user
\* message, and its completion appends exactly one assistant message (the reply
\* on success, an error notice on an HTTP failure, a malformed response or a
\* network failure) and leaves isLoading false; no other step lengthens the
\* conversation; a send while isLoading or with blank input changes nothing.
C13_SendAppendsPair ==
  [][screen = "simple" =>
       LET last == hf'.messages[Len(hf'.messages)]
           grows == /\ Len(hf'.messages) = Len(hf.messages) + 1
                    /\ SubSeq(hf'.messages, 1, Len(hf.messages)) = hf.messages
       IN /\ \A d \in Elapsed :
               sendMessage(d) =>
                 IF Blank(hf.inputMessage) \/ hf.isLoading
                 THEN hf' = hf
                 ELSE /\ grows
                      /\ last.role = "user"
                      /\ last.content = Trim(hf.inputMessage)
                      /\ hf'.pending = 1
          /\ \A outcome \in Outcomes :
               SendSettles(outcome) =>
                 /\ grows
                 /\ IF outcome = "ok"
                    THEN last.role = "assistant" /\ last.content = HfReply
                    ELSE IsNotice(last, NoticeOf(outcome))
                 /\ ~hf'.isLoading
                 /\ hf'.pending = 0
          /\ Len(hf'.messages) > Len(hf.messages) =>
               \/ \E d \in Elapsed : sendMessage(d)
               \/ \E outcome \in Outcomes : SendSettles(outcome)
               \/ hf.messages = <<>>]_vars

\* C13 witness: a send of the simple screen has completed with an HTTP
\* failure: the conversation ends with the user message and the error notice,
\* and isLoading is false again
C13_Witness ==
  /\ screen = "simple"
  /\ Len(hf.messages) >= 3
  /\ ~hf.isLoading
  /\ hf.pending = 0
  /\ hf.messages[Len(hf.messages) - 1].role = "user"
  /\ hf.messages[Len(hf.messages) - 1].content = <<"h", "i">>
  /\ IsNotice(hf.messages[Len(hf.messages)], "API Error 401: Unauthorized")

\* C14: deleting a conversation removes that conversation alone and keeps the
\* others in their order; when it was the active one and others remain, the
\* first remaining conversation becomes active; when it was not the active
\* one, the active conversation stays.
C14_DeleteOne ==
  [][\A i \in DOMAIN chats :
       deleteChat(chats[i].id) =>
         /\ chats' = SubSeq(chats, 1, i - 1) \o SubSeq(chats, i + 1, Len(chats))
         /\ (chats[i].id = activeChatId /\ Len(chats) > 1) => activeChatId' = chats'[1].id
         /\ chats[i].id # activeChatId => activeChatId' = activeChatId]_vars

\* C14 witness: the active conversation, first of two, has been deleted; the
\* other one is left as it was and is the active one
C14_Witness ==
  /\ screen = "pro"
  /\ chats = << AnsweredChat >>
  /\ activeChatId = AnsweredChat.id

\* C15 (as claimed): while the API key or the model is empty no request is
\* built or issued, and handleSend and handleRegenerate leave the
\* conversations as they are.
C15_EmptyConfigRejected ==
  [][(screen = "pro" /\ (modelConfig.apiKey = "" \/ modelConfig.selectedModel = "")) =>
       /\ reqs' = reqs
       /\ (handleSend \/ handleRegenerate) => chats' = chats]_vars

\* C16 (as claimed): whatever a network callback changes (the placeholder it
\* inserts, the text it appends, the error it records, the title it sets), it
\* changes in the conversation that is active when the callback runs; the
\* other conversations are left as they are.
C16_CallbacksHitActive ==
  [][(screen = "pro" /\ ops' = ops /\ Len(chats') = Len(chats)) =>
       \A i \in DOMAIN chats :
         chats[i].id # activeChatId => chats'[i] = chats[i]]_vars

\* a data: line whose payload is not valid JSON
IsBadFrame(line) == line.data /\ line.payload \notin {"[DONE]", "json"}
IsGoodFrame(line) == line.data /\ line.payload = "json"

RECURSIVE FrameText(_)
\* the text of the valid frames of a chunk, in line order
FrameText(lines) ==
  IF lines = <<>> THEN <<>>
  ELSE (IF IsGoodFrame(Head(lines)) THEN Head(lines).delta ELSE <<>>)
       \o FrameText(Tail(lines))

\* the chunks a body may deliver
Chunks == UNION { {body[k] : k \in DOMAIN body} : body \in Bodies }

\* C17: a data: line whose payload is not valid JSON is discarded: reading a
\* chunk that holds such a line appends the text of the chunk's valid frames,
\* those after the bad line included, to the accumulator and to an assistant
\* message of the request's conversation (when it holds one), and changes
\* nothing else; no message is added, no error is raised and the stream
\* stays open.
C17_BadFrameSkipped ==
  [][\A r \in DOMAIN reqs : \A chunk \in Chunks :
       (ReadChunk(r, chunk) /\ \E n \in DOMAIN chunk : IsBadFrame(chunk[n])) =>
         LET text == FrameText(chunk)
         IN /\ reqs'[r].full = reqs[r].full \o text
            /\ reqs'[r].phase = "read"
            /\ reqs'[r].result = reqs[r].result
            /\ alertMsg' = "none"
            /\ Len(chats') = Len(chats)
            /\ \A i \in DOMAIN chats :
                 /\ Len(chats'[i].messages) = Len(chats[i].messages)
                 /\ \A k \in DOMAIN chats[i].messages :
                      \/ chats'[i].messages[k] = chats[i].messages[k]
                      \/ /\ chats[i].messages[k].role = "assistant"
                         /\ chats'[i].messages[k] =
                              [chats[i].messages[k] EXCEPT !.content = @ \o text]
            /\ \A i \in DOMAIN chats :
                 (/\ chats[i].id = reqs[r].chatId
                  /\ \E k \in DOMAIN chats[i].messages :
                       chats[i].messages[k].role = "assistant") =>
                   \E k \in DOMAIN chats[i].messages :
                     /\ chats[i].messages[k].role = "assistant"
                     /\ chats'[i].messages[k].content =
                          chats[i].messages[k].content \o text]_vars

\* C17 witness: a stream has delivered a chunk whose first line does not
\* parse and whose later frame carries text; the accumulator and the
\* placeholder hold that text and the stream is still open
C17_Witness ==
  \E r \in DOMAIN reqs :
    /\ reqs[r].phase = "read"
    /\ reqs[r].received # <<>>
    /\ IsBadFrame(reqs[r].received[1][1])
    /\ reqs[r].full = <<"o", "k">>
    /\ LET ms == MessagesOf(chats, reqs[r].chatId)
       IN ms # <<>> /\ ms[Len(ms)].role = "assistant" /\ ms[Len(ms)].content = <<"o", "k">>

\* the step ends the stream of request r with an error
StreamFails(r) ==
  reqs[r].phase = "read" /\ reqs'[r].phase = "closed" /\ reqs'[r].result # "returned"

\* the content of request r's placeholder in the given conversations, taken
\* as seen by P, wherever the placeholder is still present
PlaceholderIs(cs, r, P(_)) ==
  LET ms == MessagesOf(cs, reqs[r].chatId)
  IN \A k \in DOMAIN ms : ms[k].id = reqs[r].asstId => P(ms[k].content)

IsEmptyText(text) == text = <<>>

\* what a failing stream leaves behind: every message of the request's
\* conversation is kept as it was and the error is one more message after
\* them; a placeholder that no other request or edit has touched holds the
\* whole text streamed so far
FailureKeepsText(r) ==
  /\ FindChat(chats, reqs[r].chatId) # 0 => ErrorAppended(r, reqs'[r].result)
  /\ LET IsFull(text) == text = reqs[r].full
     IN Len(reqs) = 1 => PlaceholderIs(chats', r, IsFull)

\* C18 (as claimed): when a stream fails, the assistant message keeps the text
\* appended so far and the error is a separate later message; when the failure
\* is the empty response, the placeholder is empty.
C18_FailureKeepsTextEmpty ==
  [][\A r \in DOMAIN reqs :
       StreamFails(r) =>
         /\ FailureKeepsText(r)
         /\ reqs'[r].result = EmptyResponse => PlaceholderIs(chats', r, IsEmptyText)]_vars

\* C18 (amended): when a stream fails, the assistant message keeps the text
\* appended so far and the error is a separate later message of the
\* conversation the request was sent from, if that still exists; when the
\* failure is the empty response, the text streamed so far is empty or only
\* whitespace and stays in the placeholder.
C18_FailureKeepsTextBlank ==
  [][\A r \in DOMAIN reqs :
       StreamFails(r) =>
         /\ FailureKeepsText(r)
         /\ reqs'[r].result = EmptyResponse => Blank(reqs[r].full)]_vars

\* C18 witness: a stream has failed after text was appended: the placeholder
\* holds that text and the error message follows it
C18_Witness ==
  \E r \in DOMAIN reqs :
    /\ reqs[r].result = NetworkError
    /\ reqs[r].full = <<"o", "k">>
    /\ LET ms == MessagesOf(chats, reqs[r].chatId)
       IN \E k \in 1..(Len(ms) - 1) :
            /\ ms[k].id = reqs[r].asstId
            /\ ms[k].content = <<"o", "k">>
            /\ IsErrorMessage(ms[k + 1], NetworkError)

\* the first user message of a conversation, as a set of at most one message
FirstUser(msgs) ==
  { msgs[k] : k \in { n \in DOMAIN msgs :
                        msgs[n].role = "user" /\ \A q \in 1..(n - 1) : msgs[q].role # "user" } }

\* C19 (as claimed): a conversation is created with the title "New Chat"; a
\* step that changes a conversation's title changes it from "New Chat" to the
\* first 42 characters of the first user message of that conversation, after
\* which no step changes it.
C19_TitleFromFirstUser ==
  [][screen = "pro" =>
       /\ newChat => chats'[1].title = <<"New Chat">>
       /\ \A i \in DOMAIN chats : \A j \in DOMAIN chats' :
            (chats'[j].id = chats[i].id /\ chats'[j].title # chats[i].title) =>
              /\ chats[i].title = <<"New Chat">>
              /\ \E m \in FirstUser(chats'[j].messages) :
                   chats'[j].title = SliceTo(m.content, TitleLen)]_vars

\* C20 (as claimed): after every change to the conversation list the stored
\* conversations are the JSON snapshot of the whole list, after every change
\* to the configuration the stored settings are the JSON snapshot of the
\* configuration, and a step that leaves one of the two values as it is leaves
\* its stored blob as it is.
C20_BlobsAreSnapshots ==
  [][screen = "pro" =>
       /\ chats' # chats => StoredBlobs'.chats = ChatsToJson(chats')
       /\ modelConfig' # modelConfig => StoredBlobs'.settings = ConfigToJson(modelConfig')
       /\ chats' = chats => StoredBlobs'.chats = StoredBlobs.chats
       /\ modelConfig' = modelConfig => StoredBlobs'.settings = StoredBlobs.settings]_vars

\* the ids of a conversation's messages are pairwise distinct
DistinctIds(msgs) ==
  \A a \in DOMAIN msgs : \A b \in DOMAIN msgs : a # b => msgs[a].id # msgs[b].id

\* a message that stays at its place keeps its role
RolesKept(before, after) ==
  \A k \in DOMAIN before \cap DOMAIN after :
    after[k].id = before[k].id => after[k].role = before[k].role

\* C21 (as claimed): on either screen no step gives a conversation two
\* messages with the same id when it had none before, and no step changes
\* the role of a message.
C21_IdsDistinctRolesFixed ==
  [][IF screen = "pro"
     THEN /\ (\A i \in DOMAIN chats : DistinctIds(chats[i].messages))
               => \A j \in DOMAIN chats' : DistinctIds(chats'[j].messages)
          /\ \A i \in DOMAIN chats : \A j \in DOMAIN chats' :
               chats'[j].id = chats[i].id => RolesKept(chats[i].messages, chats'[j].messages)
     ELSE /\ DistinctIds(hf.messages) => DistinctIds(hf'.messages)
          /\ RolesKept(hf.messages, hf'.messages)]_vars

\* C22: a read loop that was entered is left once, by the end of the body
\* (with text or with the empty-response error), by an abort or by a read
\* error; the step that leaves it sets isStreaming to false and abortRef to
\* null, and a request whose loop was left never reads again.
C22_CleanupOnEveryExit ==
  [][\A r \in DOMAIN reqs :
       /\ (reqs[r].phase = "read" /\ reqs'[r].phase # "read") =>
            /\ reqs'[r].phase = "closed"
            /\ reqs'[r].result \in {"returned", EmptyResponse, AbortError, NetworkError}
            /\ ~isStreaming'
            /\ abortRef' = 0
       /\ reqs[r].phase = "closed" => reqs'[r] = reqs[r]]_vars

\* C22 witness: a read loop was entered while isStreaming was true and has
\* been left by a read error; isStreaming is false and abortRef is null
C22_Witness ==
  \E r \in DOMAIN reqs :
    /\ reqs[r].asstId # 0
    /\ reqs[r].phase = "closed"
    /\ reqs[r].result = NetworkError
    /\ ~reqs[r].aborted
    /\ Len(reqs) = 1
    /\ ~isStreaming
    /\ abortRef = 0

\* the step delivers the user's stop to request r
Cancelled(r) == reqs[r].aborted /\ Open(r) /\ reqs'[r].phase = "closed"

\* C23 (as claimed): when the user has stopped a stream started by send or
\* regenerate, the request ends as cancelled: the conversations keep their
\* messages, the partial assistant text among them, and no assistant error
\* message is appended.
C23_StopAppendsNothing ==
  [][\A r \in DOMAIN reqs : Cancelled(r) => chats' = chats]_vars

\* C24 (as claimed): reading a chunk of request r changes no message but the
\* placeholder that request r created, and appends the text of the chunk's
\* frames to that placeholder while it is in the conversation, whatever edits,
\* regenerations, further sends and deletions happened in between.
C24_DeltasHitOwnPlaceholder ==
  [][\A r \in DOMAIN reqs : \A chunk \in Chunks :
       ReadChunk(r, chunk) =>
         \A i \in DOMAIN chats :
           LET before == chats[i].messages
               after == MessagesOf(chats', chats[i].id)
           IN /\ Len(after) = Len(before)
              /\ \A k \in DOMAIN before :
                   IF chats[i].id = reqs[r].chatId /\ before[k].id = reqs[r].asstId
                   THEN after[k].content = before[k].content \o FrameText(chunk)
                   ELSE after[k] = before[k]]_vars

RECURSIVE Flatten(_)
Flatten(chunks) == IF chunks = <<>> THEN <<>> ELSE Head(chunks) \o Flatten(Tail(chunks))

RECURSIVE Joined(_)
\* the lines of a body as the server wrote them: a line cut between two reads
\* is one line
Joined(lines) ==
  IF lines = <<>> THEN <<>>
  ELSE (IF ~Has(Head(lines), "whole") THEN << Head(lines) >>
        ELSE IF Head(lines).data THEN << Head(lines).whole >> ELSE <<>>)
       \o Joined(Tail(lines))

\* the reads so far end where a line ends
AtLineEnd(chunks) ==
  chunks = <<>> \/ LET c == chunks[Len(chunks)] IN ~(Has(c[Len(c)], "whole") /\ c[Len(c)].data)

\* C25 (as claimed): whenever the reads of a response end at the end of a
\* line, the text accumulated for the response is the concatenation of the
\* delta texts of all the data: frames read so far, in order, a frame whose
\* line was cut between two reads included.
C25_TextIndependentOfChunks ==
  \A r \in DOMAIN reqs :
    AtLineEnd(reqs[r].received) =>
      reqs[r].full = FrameText(Joined(Flatten(reqs[r].received)))

\* C26 (as claimed): on the pro screen the active conversation id is the id
\* of a conversation of the list, in every reachable state.
C26_ActiveExists ==
  screen = "pro" => \E i \in DOMAIN chats : chats[i].id = activeChatId

\* the read loop of request r is running and has not been told to stop
Reading(r) == reqs[r].phase = "read" /\ ~reqs[r].aborted

\* C27 (as claimed): in every reachable state, when isStreaming is false no
\* read loop is running, and abortRef holds the controller of the request of
\* every read loop that is running.
C27_FlagAndRefFollowLoop ==
  \A r \in DOMAIN reqs :
    Reading(r) => (isStreaming /\ abortRef = r)

\* C28 (as claimed): whenever no request is outstanding abortRef is null, in
\* particular after a request that ended with a non-success HTTP status or a
\* network failure before its read loop started.
C28_NoRequestNoRef ==
  OpenReqs = {} => abortRef = 0

\* the step leaves the list in its order and changes at most the messages and
\* the title of the conversation with the given id
OnlyChanged(id) ==
  /\ Len(chats') = Len(chats)
  /\ \A i \in DOMAIN chats :
       /\ chats'[i].id = chats[i].id
       /\ chats[i].id # id => chats'[i] = chats[i]

\* C29: send, edit-message, regenerate and /clear, and every later step of a
\* request that a send or a regenerate started, change at most the messages
\* and the title of the conversation that was active when the operation was
\* initiated; every other conversation keeps its id, title and messages and
\* the list keeps its order.
C29_OnlyOriginChanges ==
  [][screen = "pro" =>
       /\ (\/ handleSend
           \/ handleRegenerate
           \/ onChange(<<"/", "clear">>)
           \/ \E k \in 1..MsgCount : handleEditMessage(activeChat.messages[k].id))
            => OnlyChanged(activeChatId) /\ activeChatId' = activeChatId
       /\ \A r \in DOMAIN reqs :
            reqs'[r] # reqs[r] => OnlyChanged(reqs[r].chatId)]_vars

\* C29 witness: a request was started in one conversation and another
\* conversation has become active since; the placeholder of the request is in
\* the conversation the request was started in and the active conversation
\* holds no message
C29_Witness ==
  \E r \in DOMAIN reqs :
    /\ reqs[r].asstId # 0
    /\ reqs[r].chatId # activeChatId
    /\ \E k \in DOMAIN MessagesOf(chats, reqs[r].chatId) :
         MessagesOf(chats, reqs[r].chatId)[k].id = reqs[r].asstId
    /\ Mounted
    /\ activeChat.messages = <<>>

\* every request that was issued has ended
Quiet == OpenReqs = {}

\* the conversation request r was issued in ends with an assistant message
\* that holds non-blank text or reports an error
EndsSettled(r) ==
  LET ms == MessagesOf(chats, reqs[r].chatId)
  IN /\ ms # <<>>
     /\ ms[Len(ms)].role = "assistant"
     /\ ~Blank(ms[Len(ms)].content)

\* C30 (as claimed): when every request that is issued ends, each accepted
\* send or regenerate is followed by a state where isStreaming is false and
\* its conversation ends with an assistant message holding non-blank text or
\* with an assistant error message.
C30_EverySendSettles ==
  ([]<>Quiet) =>
    \A r \in 1..MaxReq :
      [](r \in DOMAIN reqs => <>(~isStreaming /\ r \in DOMAIN reqs /\ EndsSettled(r)))

====
